---------------------------- MODULE Spec2Model ----------------------------
(***************************************************************************)
(* A model of sparse_matrix/code/sparse.py: the CompressedMatrix class     *)
(* (storage, text codec, arithmetic) and the execute_calculations flow.    *)
(*                                                                         *)
(* Python objects live in a heap.  A CompressedMatrix object holds         *)
(* row_count, column_count and a reference to its own dict; a dict is the  *)
(* sequence of its items in insertion order, which is the order CPython    *)
(* iterates a dict in.  Text is a sequence of one-character strings.       *)
(***************************************************************************)
EXTENDS Integers, Sequences, FiniteSets, TLC

VARIABLES
    objects,    \* the CompressedMatrix objects, by object id (1..Len)
    dicts,      \* the dict objects, by dict id (1..Len)
    last,       \* the call made by the latest step and how it ended
    files,      \* the file system: the text of each path of an existing directory
    written,    \* the paths save_to_file has written
    pc,         \* where execute_calculations is
    frame,      \* the local names of execute_calculations (0: not bound yet)
    stdout      \* the lines printed

vars == <<objects, dicts, last, files, written, pc, frame, stdout>>

\* the state of execute_calculations
cli == <<pc, frame, stdout>>

\* execute_calculations is not running
NotRunning ==
    /\ pc = "off"
    /\ frame = [matrix1 |-> 0, matrix2 |-> 0, operation |-> "", result_matrix |-> 0,
                output_file_path |-> ""]
    /\ stdout = <<>>

\* ------------------------------------------------------------ bounds
\* set_value is called with indices 0..MaxIndex
MaxIndex == 1
\* set_value is called with values -MaxValue..MaxValue
MaxValue == 1
\* a dict is not grown beyond MaxEntries items by a direct set_value call
MaxEntries == 2
\* no more than MaxOperands matrices are constructed directly and written
\* by direct set_value calls
MaxOperands == 2
\* no more than MaxObjects matrices are alive, results included; a run ends
\* when that many are
MaxObjects == 3

Indices == 0..MaxIndex
\* a matrix is constructed with dimensions 0..MaxIndex and grows from there
Dimensions == 0..MaxIndex
Values == (-MaxValue)..MaxValue

None == "None"

Max(a, b) == IF a >= b THEN a ELSE b

\* ------------------------------------------------------------ the heap
Heap == [objects |-> objects, dicts |-> dicts]

EmptyHeap == [objects |-> <<>>, dicts |-> <<>>]

\* the dict object of matrix self
DictOf(h, self) == h.dicts[h.objects[self].non_zero_elements]

\* d.get(key, default)
dict_get(d, key, default) ==
    IF \E i \in 1..Len(d) : d[i].key = key
    THEN d[CHOOSE i \in 1..Len(d) : d[i].key = key].value
    ELSE default

\* d[key] = value: an existing key keeps its place, a new key goes last
dict_setitem(d, key, value) ==
    IF \E i \in 1..Len(d) : d[i].key = key
    THEN [i \in 1..Len(d) |-> IF d[i].key = key
                                THEN [key |-> key, value |-> value]
                                ELSE d[i]]
    ELSE Append(d, [key |-> key, value |-> value])

Keys(d) == {d[i].key : i \in 1..Len(d)}

\* CompressedMatrix(row_count, column_count): the new object is the last one
\* of the heap and owns a new, empty dict
CompressedMatrix(h, row_count, column_count) ==
    [objects |-> Append(h.objects,
                        [row_count |-> row_count,
                         column_count |-> column_count,
                         non_zero_elements |-> Len(h.dicts) + 1]),
     dicts |-> Append(h.dicts, <<>>)]

\* the id of the object the latest CompressedMatrix(...) call made
NewestObject(h) == Len(h.objects)

\* get_value with its indices exchanged
get_value_swapped(h, self, row_index, col_index) ==
    dict_get(DictOf(h, self), <<col_index, row_index>>, 0)

get_value(h, self, row_index, col_index) ==
    dict_get(DictOf(h, self), <<row_index, col_index>>, 0)

\* set_value that takes the index for the count
set_value_index_as_count(h, self, row_index, col_index, value) ==
    LET o == h.objects[self]
    IN  [objects |-> [h.objects EXCEPT ![self] =
                        [o EXCEPT !.row_count = Max(@, row_index),
                                  !.column_count = Max(@, col_index)]],
         dicts |-> [h.dicts EXCEPT ![o.non_zero_elements] =
                        dict_setitem(@, <<row_index, col_index>>, value)]]

set_value(h, self, row_index, col_index, value) ==
    LET o == h.objects[self]
    IN  [objects |-> [h.objects EXCEPT ![self] =
                        [o EXCEPT !.row_count = Max(@, row_index + 1),
                                  !.column_count = Max(@, col_index + 1)]],
         dicts |-> [h.dicts EXCEPT ![o.non_zero_elements] =
                        dict_setitem(@, <<row_index, col_index>>, value)]]

\* ------------------------------------------------------------ arithmetic
\* a call ends with the heap it leaves, the value it returns and the
\* exception it raises (NoException: it returns normally)
\* an exception: its type, its message and what the message is formatted
\* with (a line number, a line or a path)
Exception(type, msg, line, arg) ==
    [type |-> type, msg |-> msg, line |-> line, arg |-> arg]
NoException == Exception("None", "", 0, <<>>)
Raised(exc) == exc.type # "None"

Return(h, ret) == [heap |-> h, ret |-> ret, exc |-> NoException]
Raise(h, exc) == [heap |-> h, ret |-> None, exc |-> exc]

DimensionsError(operation) ==
    Exception("ValueError", "Matrices must have the same dimensions for {operation}.",
              0, <<operation>>)
InnerDimensionError ==
    Exception("ValueError",
              "Number of columns of the first matrix must equal the number of rows of the second matrix.",
              0, <<>>)

\* _check_dimensions that raises only when both dimensions differ
_check_dimensions_both(h, self, other_matrix) ==
    /\ h.objects[self].row_count # h.objects[other_matrix].row_count
    /\ h.objects[self].column_count # h.objects[other_matrix].column_count

\* TRUE when _check_dimensions raises
_check_dimensions(h, self, other_matrix) ==
    \/ h.objects[self].row_count # h.objects[other_matrix].row_count
    \/ h.objects[self].column_count # h.objects[other_matrix].column_count

\* _create_empty_matrix whose result holds the dict of self
_create_empty_matrix_shared(h, self) ==
    [objects |-> Append(h.objects, h.objects[self]), dicts |-> h.dicts]

_create_empty_matrix(h, self) ==
    CompressedMatrix(h, h.objects[self].row_count, h.objects[self].column_count)

\* the for loop of _copy_non_zero_elements, from item i on
RECURSIVE CopyFrom(_, _, _, _)
CopyFrom(h, self, target_matrix, i) ==
    LET items == DictOf(h, self)
    IN  IF i > Len(items) THEN h
        ELSE CopyFrom(set_value(h, target_matrix, items[i].key[1],
                                items[i].key[2], items[i].value),
                      self, target_matrix, i + 1)

_copy_non_zero_elements(h, self, target_matrix) ==
    CopyFrom(h, self, target_matrix, 1)

\* the for loop of add (sign = 1) and of subtract (sign = -1), from item i on
RECURSIVE AccumulateFrom(_, _, _, _, _)
AccumulateFrom(h, other_matrix, result_matrix, sign, i) ==
    LET items == DictOf(h, other_matrix)
    IN  IF i > Len(items) THEN h
        ELSE LET row_index == items[i].key[1]
                 col_index == items[i].key[2]
                 current_value == get_value(h, result_matrix, row_index, col_index)
             IN  AccumulateFrom(
                     set_value(h, result_matrix, row_index, col_index,
                               current_value + sign * items[i].value),
                     other_matrix, result_matrix, sign, i + 1)

\* add that writes the other matrix's values over the copy
add_overwrites(h, self, other_matrix) ==
    IF _check_dimensions(h, self, other_matrix)
    THEN Raise(h, DimensionsError("addition"))
    ELSE LET h1 == _create_empty_matrix(h, self)
             result_matrix == NewestObject(h1)
             h2 == _copy_non_zero_elements(h1, self, result_matrix)
         IN  Return(_copy_non_zero_elements(h2, other_matrix, result_matrix),
                    result_matrix)

add(h, self, other_matrix) ==
    IF _check_dimensions(h, self, other_matrix)
    THEN Raise(h, DimensionsError("addition"))
    ELSE LET h1 == _create_empty_matrix(h, self)
             result_matrix == NewestObject(h1)
             h2 == _copy_non_zero_elements(h1, self, result_matrix)
         IN  Return(AccumulateFrom(h2, other_matrix, result_matrix, 1, 1),
                    result_matrix)

\* subtract that accumulates with the sign of add
subtract_adds(h, self, other_matrix) ==
    IF _check_dimensions(h, self, other_matrix)
    THEN Raise(h, DimensionsError("subtraction"))
    ELSE LET h1 == _create_empty_matrix(h, self)
             result_matrix == NewestObject(h1)
             h2 == _copy_non_zero_elements(h1, self, result_matrix)
         IN  Return(AccumulateFrom(h2, other_matrix, result_matrix, 1, 1),
                    result_matrix)

subtract(h, self, other_matrix) ==
    IF _check_dimensions(h, self, other_matrix)
    THEN Raise(h, DimensionsError("subtraction"))
    ELSE LET h1 == _create_empty_matrix(h, self)
             result_matrix == NewestObject(h1)
             h2 == _copy_non_zero_elements(h1, self, result_matrix)
         IN  Return(AccumulateFrom(h2, other_matrix, result_matrix, -1, 1),
                    result_matrix)

\* the inner loop of multiply without the accumulation
RECURSIVE MultiplyRow_overwrites(_, _, _, _, _, _, _, _)
MultiplyRow_overwrites(h, other_matrix, result_matrix, row_index, col_index, value, k, stop) ==
    IF k >= stop THEN h
    ELSE LET other_value == get_value(h, other_matrix, col_index, k)
             h1 == IF other_value # 0
                   THEN set_value(h, result_matrix, row_index, k, value * other_value)
                   ELSE h
         IN  MultiplyRow_overwrites(h1, other_matrix, result_matrix, row_index,
                                    col_index, value, k + 1, stop)

\* the inner for loop of multiply: k from k0 to other_matrix.column_count - 1
\* (column_count is the range's bound, read when the loop starts)
RECURSIVE MultiplyRow(_, _, _, _, _, _, _, _)
MultiplyRow(h, other_matrix, result_matrix, row_index, col_index, value, k, stop) ==
    IF k >= stop THEN h
    ELSE LET other_value == get_value(h, other_matrix, col_index, k)
             current_value == get_value(h, result_matrix, row_index, k)
             h1 == IF other_value # 0
                   THEN set_value(h, result_matrix, row_index, k,
                                  current_value + value * other_value)
                   ELSE h
         IN  MultiplyRow(h1, other_matrix, result_matrix, row_index, col_index,
                         value, k + 1, stop)

\* the outer for loop of multiply, from item i of self on
RECURSIVE MultiplyFrom(_, _, _, _, _)
MultiplyFrom(h, self, other_matrix, result_matrix, i) ==
    LET items == DictOf(h, self)
    IN  IF i > Len(items) THEN h
        ELSE MultiplyFrom(
                 MultiplyRow(h, other_matrix, result_matrix, items[i].key[1],
                             items[i].key[2], items[i].value, 0,
                             h.objects[other_matrix].column_count),
                 self, other_matrix, result_matrix, i + 1)

multiply(h, self, other_matrix) ==
    IF h.objects[self].column_count # h.objects[other_matrix].row_count
    THEN Raise(h, InnerDimensionError)
    ELSE LET h1 == CompressedMatrix(h, h.objects[self].row_count,
                                    h.objects[other_matrix].column_count)
             result_matrix == NewestObject(h1)
         IN  Return(MultiplyFrom(h1, self, other_matrix, result_matrix, 1),
                    result_matrix)

\* ------------------------------------------------------------ text
Digits == <<"0", "1", "2", "3", "4", "5", "6", "7", "8", "9">>
DigitChars == {Digits[i] : i \in 1..10}
\* the characters str.strip() removes and \s matches
Whitespace == {" ", "\n", "\t", "\r"}

\* str(n) of a non-negative int
RECURSIVE NatToStr(_)
NatToStr(n) ==
    IF n < 10 THEN <<Digits[n + 1]>>
    ELSE Append(NatToStr(n \div 10), Digits[(n % 10) + 1])

\* str(n), as an f-string formats an int
IntToStr(n) == IF n < 0 THEN <<"-">> \o NatToStr(-n) ELSE NatToStr(n)

DigitValue(c) == CHOOSE n \in 0..9 : Digits[n + 1] = c

\* int(s) of a string of decimal digits
RECURSIVE StrToNat(_)
StrToNat(s) ==
    IF s = <<>> THEN 0
    ELSE 10 * StrToNat(SubSeq(s, 1, Len(s) - 1)) + DigitValue(s[Len(s)])

\* int(s) of an optional "-" and decimal digits
StrToInt(s) == IF s[1] = "-" THEN -StrToNat(Tail(s)) ELSE StrToNat(s)

\* the first index from i on whose character is not in set (Len(s) + 1: none)
RECURSIVE SkipWhile(_, _, _)
SkipWhile(s, i, set) ==
    IF i <= Len(s) /\ s[i] \in set THEN SkipWhile(s, i + 1, set) ELSE i

\* the last index down from i whose character is not in set (0: none)
RECURSIVE SkipBack(_, _, _)
SkipBack(s, i, set) ==
    IF i >= 1 /\ s[i] \in set THEN SkipBack(s, i - 1, set) ELSE i

\* s.strip()
strip(s) == SubSeq(s, SkipWhile(s, 1, Whitespace), SkipBack(s, Len(s), Whitespace))

CharAt(s, i) == IF i >= 1 /\ i <= Len(s) THEN s[i] ELSE "EOF"

StartsWith(s, literal) ==
    Len(s) >= Len(literal) /\ SubSeq(s, 1, Len(literal)) = literal

\* the first index from i on whose character is c (Len(s) + 1: none)
RECURSIVE Find(_, _, _)
Find(s, i, c) ==
    IF i <= Len(s) /\ s[i] # c THEN Find(s, i + 1, c) ELSE i

\* file.readlines(): the lines of a text, each with its line break
RECURSIVE readlines(_)
readlines(text) ==
    IF text = <<>> THEN <<>>
    ELSE LET n == Find(text, 1, "\n")
         IN  IF n > Len(text) THEN <<text>>
             ELSE <<SubSeq(text, 1, n)>> \o readlines(SubSeq(text, n + 1, Len(text)))

\* re.match(r'rows=(\d+)', s) and re.match(r'cols=(\d+)', s): the pattern is
\* matched at the start of s and nothing is asked of what follows the match
re_match_dimension(name, s) ==
    LET literal == name \o <<"=">>
        from == Len(literal) + 1
        to == SkipWhile(s, from, DigitChars)
    IN  IF StartsWith(s, literal) /\ to > from
        THEN [matched |-> TRUE, group1 |-> SubSeq(s, from, to - 1), end |-> to - 1]
        ELSE [matched |-> FALSE]

\* re.match(r'\((\d+),\s*(\d+),\s*(\d+)\)', s): the value has no sign
re_match_triple_unsigned(s) ==
    LET r0 == 2
        r1 == SkipWhile(s, r0, DigitChars)
        c0 == SkipWhile(s, r1 + 1, Whitespace)
        c1 == SkipWhile(s, c0, DigitChars)
        v0 == SkipWhile(s, c1 + 1, Whitespace)
        v1 == SkipWhile(s, v0, DigitChars)
    IN  IF /\ CharAt(s, 1) = "("
           /\ r1 > r0 /\ CharAt(s, r1) = ","
           /\ c1 > c0 /\ CharAt(s, c1) = ","
           /\ v1 > v0
           /\ CharAt(s, v1) = ")"
        THEN [matched |-> TRUE, group1 |-> SubSeq(s, r0, r1 - 1),
              group2 |-> SubSeq(s, c0, c1 - 1), group3 |-> SubSeq(s, v0, v1 - 1),
              end |-> v1]
        ELSE [matched |-> FALSE]

\* re.match(r'\((\d+),\s*(\d+),\s*(-?\d+)\)', s)
re_match_triple(s) ==
    LET r0 == 2
        r1 == SkipWhile(s, r0, DigitChars)
        c0 == SkipWhile(s, r1 + 1, Whitespace)
        c1 == SkipWhile(s, c0, DigitChars)
        v0 == SkipWhile(s, c1 + 1, Whitespace)
        v1 == SkipWhile(s, IF CharAt(s, v0) = "-" THEN v0 + 1 ELSE v0, DigitChars)
    IN  IF /\ CharAt(s, 1) = "("
           /\ r1 > r0 /\ CharAt(s, r1) = ","
           /\ c1 > c0 /\ CharAt(s, c1) = ","
           /\ v1 > (IF CharAt(s, v0) = "-" THEN v0 + 1 ELSE v0)
           /\ CharAt(s, v1) = ")"
        THEN [matched |-> TRUE, group1 |-> SubSeq(s, r0, r1 - 1),
              group2 |-> SubSeq(s, c0, c1 - 1), group3 |-> SubSeq(s, v0, v1 - 1),
              end |-> v1]
        ELSE [matched |-> FALSE]

Rows == <<"r", "o", "w", "s">>
Cols == <<"c", "o", "l", "s">>

\* ------------------------------------------------------------ text codec
\* the text of a path that names no file
NoFile == <<"NoFile">>

\* the for loop of __str__, from item i on
RECURSIVE StrFrom(_, _, _, _)
StrFrom(h, self, result, i) ==
    LET items == DictOf(h, self)
    IN  IF i > Len(items) THEN result
        ELSE StrFrom(h, self,
                     result \o <<"(">> \o IntToStr(items[i].key[1]) \o <<",", " ">>
                            \o IntToStr(items[i].key[2]) \o <<",", " ">>
                            \o IntToStr(items[i].value) \o <<")", "\n">>,
                     i + 1)

\* str(matrix)
__str__(h, self) ==
    strip(StrFrom(h, self,
                  Rows \o <<"=">> \o IntToStr(h.objects[self].row_count) \o <<"\n">>
                  \o Cols \o <<"=">> \o IntToStr(h.objects[self].column_count) \o <<"\n">>,
                  1))

\* open(file_path, "w") fails for a path in no existing directory
save_to_file(h, fs, self, file_path) ==
    IF file_path \notin DOMAIN fs
    THEN [files |-> fs,
          exc |-> Exception("FileNotFoundError", "No such file or directory: {file_path}",
                            0, <<file_path>>)]
    ELSE [files |-> [fs EXCEPT ![file_path] = __str__(h, self)], exc |-> NoException]

_read_file(fs, file_path) ==
    IF file_path \notin DOMAIN fs \/ fs[file_path] = NoFile
    THEN [lines |-> <<>>,
          exc |-> Exception("FileNotFoundError", "File not found: {file_path}.",
                            0, <<file_path>>)]
    ELSE LET lines == readlines(fs[file_path])
         IN  IF Len(lines) < 2
             THEN [lines |-> <<>>,
                   exc |-> Exception("ValueError",
                                     "File {file_path} does not contain enough lines for matrix dimensions.",
                                     0, <<file_path>>)]
             ELSE [lines |-> lines, exc |-> NoException]

_parse_dimensions(lines) ==
    LET row_pattern == re_match_dimension(Rows, strip(lines[1]))
        col_pattern == re_match_dimension(Cols, strip(lines[2]))
    IN  IF ~row_pattern.matched \/ ~col_pattern.matched
        THEN [ret |-> <<>>,
              exc |-> Exception("ValueError",
                                "Invalid dimension format in file. Expected 'rows=X' and 'cols=Y'.",
                                0, <<>>)]
        ELSE [ret |-> <<StrToInt(row_pattern.group1), StrToInt(col_pattern.group1)>>,
              exc |-> NoException]

\* the for loop of _parse_non_zero_elements from line i on (lines are
\* numbered from 1 here, so i is the i + 1 of the message)
RECURSIVE ParseFrom(_, _, _, _)
ParseFrom(h, lines, matrix_instance, i) ==
    IF i > Len(lines) THEN Return(h, None)
    ELSE LET line == strip(lines[i])
             match == re_match_triple(line)
         IN  IF line = <<>> THEN ParseFrom(h, lines, matrix_instance, i + 1)
             ELSE IF ~match.matched
             THEN Raise(h, Exception("ValueError", "Invalid format at line {i + 1}: {line}.",
                                     i, line))
             ELSE ParseFrom(set_value(h, matrix_instance, StrToInt(match.group1),
                                      StrToInt(match.group2), StrToInt(match.group3)),
                            lines, matrix_instance, i + 1)

_parse_non_zero_elements(h, lines, matrix_instance) ==
    ParseFrom(h, lines, matrix_instance, 3)

\* a call that raises returns no matrix: the matrix it was filling is
\* referenced by nothing and is gone from the heap
load_from_file(h, fs, file_path) ==
    LET read == _read_file(fs, file_path)
    IN  IF Raised(read.exc) THEN [heap |-> h, ret |-> None, exc |-> read.exc]
        ELSE LET dims == _parse_dimensions(read.lines)
             IN  IF Raised(dims.exc) THEN [heap |-> h, ret |-> None, exc |-> dims.exc]
                 ELSE LET h1 == CompressedMatrix(h, dims.ret[1], dims.ret[2])
                          matrix_instance == NewestObject(h1)
                          parsed == _parse_non_zero_elements(h1, read.lines, matrix_instance)
                      IN  IF Raised(parsed.exc)
                          THEN [heap |-> h, ret |-> None, exc |-> parsed.exc]
                          ELSE Return(parsed.heap, matrix_instance)

\* ------------------------------------------------------------ actions
Alive == 1..Len(objects)

Call(op, self, other_matrix, r) ==
    /\ UNCHANGED <<files, written, cli>>
    /\ objects' = r.heap.objects
    /\ dicts' = r.heap.dicts
    /\ last' = [op |-> op, self |-> self, other |-> other_matrix,
                ret |-> r.ret, exc |-> r.exc]

\* CompressedMatrix(row_count, column_count) with non-negative dimensions,
\* while fewer than limit matrices are alive
NewMatrix(limit) ==
    /\ Len(objects) < limit
    /\ UNCHANGED <<files, written, cli>>
    /\ \E row_count \in Dimensions, column_count \in Dimensions :
         LET h == CompressedMatrix(Heap, row_count, column_count)
         IN  /\ objects' = h.objects
             /\ dicts' = h.dicts
             /\ last' = [op |-> "new", ret |-> NewestObject(h), exc |-> NoException]

\* m.set_value(row_index, col_index, value) with non-negative indices, on a
\* matrix that was constructed directly or is the second object; a matrix is
\* written before any is saved and while the heap is not full
SetValueIn(indices, values) ==
    \E self \in Alive, row_index \in indices, col_index \in indices, value \in values :
        /\ self <= MaxOperands
        /\ Len(objects) < MaxObjects
        /\ written = {}
    /\ NotRunning
        /\ \/ <<row_index, col_index>> \in Keys(DictOf(Heap, self))
           \/ Len(DictOf(Heap, self)) < MaxEntries
        /\ UNCHANGED <<files, written, cli>>
        /\ LET h == set_value(Heap, self, row_index, col_index, value)
           IN  /\ objects' = h.objects
               /\ dicts' = h.dicts
               /\ last' = [op |-> "set_value", self |-> self, row_index |-> row_index,
                           col_index |-> col_index, ret |-> None, exc |-> NoException]

New == NewMatrix(MaxOperands)

SetValue == SetValueIn(Indices, Values)

Add ==
    /\ Len(objects) < MaxObjects
    /\ \E self \in Alive, other_matrix \in Alive :
         Call("add", self, other_matrix, add(Heap, self, other_matrix))

Subtract ==
    /\ Len(objects) < MaxObjects
    /\ \E self \in Alive, other_matrix \in Alive :
         Call("subtract", self, other_matrix, subtract(Heap, self, other_matrix))

Multiply ==
    /\ Len(objects) < MaxObjects
    /\ \E self \in Alive, other_matrix \in Alive :
         Call("multiply", self, other_matrix, multiply(Heap, self, other_matrix))

Init ==
    /\ objects = <<>>
    /\ dicts = <<>>
    /\ last = [op |-> "none", ret |-> None, exc |-> NoException]
    /\ files = <<>>
    /\ written = {}
    /\ NotRunning

Next == New \/ SetValue \/ Add \/ Subtract \/ Multiply

Spec == Init /\ [][Next]_vars

\* ------------------------------------------------------------ the codec's runs
\* indices and values of one and of two digits, with and without a sign
WideIndices == {0, MaxIndex, 10 + MaxIndex}
WideValues == {-(10 + MaxValue), 0, MaxValue}

\* the paths of the existing directory, and one of a directory that is not
Paths == {"m.txt", "none.txt"}
AllPaths == Paths \cup {"nodir/m.txt"}

NewOne == NewMatrix(1)

SetWideValue == SetValueIn(WideIndices, WideValues)

\* m.save_to_file(file_path)
SaveToFile ==
    \E self \in Alive, file_path \in AllPaths \ {"none.txt"} :
        LET r == save_to_file(Heap, files, self, file_path)
        IN  /\ files' = r.files
            /\ written' = IF Raised(r.exc) THEN written ELSE written \cup {file_path}
            /\ last' = [op |-> "save_to_file", self |-> self, path |-> file_path,
                        ret |-> None, exc |-> r.exc]
            /\ UNCHANGED <<objects, dicts, cli>>

\* CompressedMatrix.load_from_file(file_path)
LoadFromFile ==
    /\ Len(objects) < MaxObjects
    /\ \E file_path \in AllPaths :
         LET r == load_from_file(Heap, files, file_path)
         IN  /\ objects' = r.heap.objects
             /\ dicts' = r.heap.dicts
             /\ last' = [op |-> "load_from_file", path |-> file_path,
                         ret |-> r.ret, exc |-> r.exc]
             /\ UNCHANGED <<files, written, cli>>

InitCodec ==
    /\ objects = <<>>
    /\ dicts = <<>>
    /\ last = [op |-> "none", ret |-> None, exc |-> NoException]
    /\ files = [path \in Paths |-> NoFile]
    /\ written = {}
    /\ NotRunning

NextCodec == NewOne \/ SetWideValue \/ SaveToFile \/ LoadFromFile

\* a matrix is built by set_value calls, saved and loaded
SpecCodec == InitCodec /\ [][NextCodec]_vars

\* ------------------------------------------------------------ the parser's runs
\* a text has no more than MaxLines lines after its two dimension lines
MaxLines == 2

RowsLines ==
    {<<"r", "o", "w", "s", "=", "2">>,
     <<" ", "r", "o", "w", "s", "=", "2", " ">>,
     <<"r", "o", "w", "s", "=", "2", "x">>,
     <<"r", "o", "w", "s", "=">>,
     <<"x", "r", "o", "w", "s", "=", "2">>,
     <<"r", "o", "w", "s", "=", "-", "1">>}

ColsLines ==
    {<<"c", "o", "l", "s", "=", "2">>,
     <<"c", "o", "l", "s", "=", "2", " ", "x">>,
     <<"c", "o", "l", "s", "=", "x">>}

EntryLines ==
    {<<"(", "0", ",", " ", "1", ",", " ", "-", "1", ")">>,
     <<"(", "1", ",", "0", ",", "5", ")">>,
     <<>>,
     <<" ", "\t">>,
     <<" ", "(", "1", ",", " ", "1", ",", " ", "1", "0", ")", " ">>,
     <<"(", "0", ",", " ", "0", ",", " ", "1", ")", "x">>,
     <<"(", "0", ",", " ", "0", ",", " ", "1", ")", "(", "1", ",", " ", "1", ",", " ", "1", ")">>,
     <<"(", "1", ",", " ", "2", ",", " ", "x", ")">>,
     <<"(", "0", ",", " ", "0", ",", " ", "1">>,
     <<"(", "-", "1", ",", " ", "0", ",", " ", "1", ")">>,
     <<"x", "(", "0", ",", " ", "0", ",", " ", "1", ")">>}

\* texts of fewer than two lines
ShortTexts ==
    {<<>>,
     <<"r", "o", "w", "s", "=", "2">>,
     <<"r", "o", "w", "s", "=", "2", "\n">>}

RECURSIVE JoinLines(_)
JoinLines(lines) ==
    IF lines = <<>> THEN <<>>
    ELSE IF Len(lines) = 1 THEN lines[1]
    ELSE lines[1] \o <<"\n">> \o JoinLines(Tail(lines))

SeqsUpTo(S, n) == UNION {[1..k -> S] : k \in 0..n}

RawTexts ==
    {JoinLines(<<r, c>> \o e) :
        r \in RowsLines, c \in ColsLines, e \in SeqsUpTo(EntryLines, MaxLines)}
    \cup ShortTexts

InitParse ==
    /\ objects = <<>>
    /\ dicts = <<>>
    /\ last = [op |-> "none", ret |-> None, exc |-> NoException]
    /\ \E text \in RawTexts :
         files = [path \in Paths |-> IF path = "m.txt" THEN text ELSE NoFile]
    /\ written = {}
    /\ NotRunning

NextParse == LoadFromFile

\* a text that some other program wrote is loaded
SpecParse == InitParse /\ [][NextParse]_vars

\* ------------------------------------------------------------ execute_calculations
\* a printed line: its text and what it is formatted with
Line(text, arg) == [text |-> text, arg |-> arg]

\* matrix_operations
matrix_operations ==
    [operation_choice \in {"1", "2", "3"} |->
        CASE operation_choice = "1" -> [name |-> "multiplication", method |-> "multiply"]
          [] operation_choice = "2" -> [name |-> "subtraction", method |-> "subtract"]
          [] operation_choice = "3" -> [name |-> "addition", method |-> "add"]]

\* getattr(matrix1, method)(matrix2)
getattr(h, self, method, other_matrix) ==
    CASE method = "multiply" -> multiply(h, self, other_matrix)
      [] method = "subtract" -> subtract(h, self, other_matrix)
      [] method = "add" -> add(h, self, other_matrix)

\* an except clause that prints nothing
except_Exception_silent(error) ==
    /\ stdout' = stdout
    /\ pc' = "done"

\* except Exception as error: print("Error:", error), and the function ends
except_Exception(error) ==
    /\ stdout' = Append(stdout, Line("Error:", error))
    /\ pc' = "done"

\* what the user types at the prompts
InputPaths == {"a.txt", "b.txt", "none.txt"}
Choices == {"1", "2", "3", "4"}
OutputPaths == {"out.txt", "a.txt", "nodir/out.txt"}

\* the menu is printed
PrintMenu ==
    /\ pc = "menu"
    /\ stdout' = stdout \o <<Line("Choose operations:", <<>>),
                             Line("1: multiplication", <<>>),
                             Line("2: subtraction", <<>>),
                             Line("3: addition", <<>>)>>
    /\ pc' = "load_first"
    /\ UNCHANGED <<objects, dicts, last, files, written, frame>>

\* load_matrix_from_user(matrix_number), called where pc is at and bound to name
load_matrix_from_user(at, matrix_number, name, next) ==
    /\ pc = at
    /\ \E matrix_path \in InputPaths :
         LET r == load_from_file(Heap, files, matrix_path)
         IN  IF Raised(r.exc)
             THEN /\ except_Exception(r.exc)
                  /\ UNCHANGED <<objects, dicts, frame>>
             ELSE /\ objects' = r.heap.objects
                  /\ dicts' = r.heap.dicts
                  /\ frame' = [frame EXCEPT ![name] = r.ret]
                  /\ stdout' = Append(stdout, Line("{matrix_number} matrix loaded successfully.",
                                                   <<matrix_number>>))
                  /\ pc' = next
    /\ UNCHANGED <<last, files, written>>

LoadFirst == load_matrix_from_user("load_first", "First", "matrix1", "load_second")

LoadSecond == load_matrix_from_user("load_second", "Second", "matrix2", "choose")

\* the operation is read and looked up
ReadChoice ==
    /\ pc = "choose"
    /\ \E operation_choice \in Choices :
         IF operation_choice \in DOMAIN matrix_operations
         THEN /\ frame' = [frame EXCEPT !.operation = operation_choice]
              /\ pc' = "apply"
              /\ stdout' = stdout
         ELSE /\ except_Exception(Exception("ValueError", "Invalid operation choice.", 0, <<>>))
              /\ frame' = frame
    /\ UNCHANGED <<objects, dicts, last, files, written>>

\* the operation is applied
Apply ==
    /\ pc = "apply"
    /\ LET operation == matrix_operations[frame.operation]
           r == getattr(Heap, frame.matrix1, operation.method, frame.matrix2)
       IN  IF Raised(r.exc)
           THEN /\ except_Exception(r.exc)
                /\ UNCHANGED <<objects, dicts, frame>>
           ELSE /\ objects' = r.heap.objects
                /\ dicts' = r.heap.dicts
                /\ frame' = [frame EXCEPT !.result_matrix = r.ret]
                /\ stdout' = Append(stdout, Line("Output of {operation['name']}...",
                                                 <<operation.name>>))
                /\ pc' = "output_path"
    /\ UNCHANGED <<last, files, written>>

\* the output path is read
ReadOutputPath ==
    /\ pc = "output_path"
    /\ \E output_file_path \in OutputPaths :
         frame' = [frame EXCEPT !.output_file_path = output_file_path]
    /\ pc' = "save"
    /\ UNCHANGED <<objects, dicts, last, files, written, stdout>>

\* the result is saved
Save ==
    /\ pc = "save"
    /\ LET r == save_to_file(Heap, files, frame.result_matrix, frame.output_file_path)
       IN  IF Raised(r.exc)
           THEN /\ except_Exception(r.exc)
                /\ UNCHANGED <<files, written>>
           ELSE /\ files' = r.files
                /\ written' = written \cup {frame.output_file_path}
                /\ stdout' = Append(stdout, Line("Output file saved to {output_file_path}.",
                                                 <<frame.output_file_path>>))
                /\ pc' = "done"
    /\ UNCHANGED <<objects, dicts, last, frame>>

\* the texts of the two input files
CliTexts ==
    {<<"r", "o", "w", "s", "=", "2", "\n", "c", "o", "l", "s", "=", "2", "\n", "(", "0", ",", " ", "0", ",", " ", "1", ")", "\n", "(", "1", ",", " ", "1", ",", " ", "2", ")">>,
     <<"r", "o", "w", "s", "=", "2", "\n", "c", "o", "l", "s", "=", "2", "\n", "(", "0", ",", " ", "0", ",", " ", "3", ")", "\n", "(", "0", ",", " ", "1", ",", " ", "4", ")">>,
     <<"r", "o", "w", "s", "=", "1", "\n", "c", "o", "l", "s", "=", "2", "\n", "(", "0", ",", " ", "1", ",", " ", "-", "1", ")">>,
     <<"r", "o", "w", "s", "=", "2", "\n", "c", "o", "l", "s", "=", "2", "\n", "(", "1", ",", " ", "2", ",", " ", "x", ")">>,
     <<"r", "o", "w", "s", "=", "2">>}

InitCLI ==
    /\ objects = <<>>
    /\ dicts = <<>>
    /\ last = [op |-> "none", ret |-> None, exc |-> NoException]
    /\ \E first \in CliTexts, second \in CliTexts :
         files = [path \in {"a.txt", "b.txt", "out.txt"} |->
                     CASE path = "a.txt" -> first
                       [] path = "b.txt" -> second
                       [] OTHER -> NoFile]
    /\ written = {}
    /\ pc = "menu"
    /\ frame = [matrix1 |-> 0, matrix2 |-> 0, operation |-> "", result_matrix |-> 0,
                output_file_path |-> ""]
    /\ stdout = <<>>

NextCLI ==
    PrintMenu \/ LoadFirst \/ LoadSecond \/ ReadChoice \/ Apply \/ ReadOutputPath \/ Save

\* one run of execute_calculations
SpecCLI == InitCLI /\ [][NextCLI]_vars

\* ------------------------------------------------------------ claims
Arithmetic == {"add", "subtract", "multiply"}

RowsOf(h, self) == 0..(h.objects[self].row_count - 1)
ColumnsOf(h, self) == 0..(h.objects[self].column_count - 1)

SameDimensions(h, a, b) ==
    /\ h.objects[a].row_count = h.objects[b].row_count
    /\ h.objects[a].column_count = h.objects[b].column_count

\* the sum over k in 0..n-1 of a[r, k] * b[k, j]
RECURSIVE DotProduct(_, _, _, _, _, _)
DotProduct(h, a, b, r, j, n) ==
    IF n = 0 THEN 0
    ELSE DotProduct(h, a, b, r, j, n - 1)
         + get_value(h, a, r, n - 1) * get_value(h, b, n - 1, j)

\* the exception add, subtract and multiply raise on operands that do not fit
DimensionMismatch(exc) ==
    exc \in {DimensionsError("addition"), DimensionsError("subtraction"),
             InnerDimensionError}

KeysInRange ==
    \A self \in Alive : \A key \in Keys(DictOf(Heap, self)) :
        /\ key[1] >= 0 /\ key[1] < objects[self].row_count
        /\ key[2] >= 0 /\ key[2] < objects[self].column_count

SetGrowsExactly ==
    last'.op = "set_value" =>
        LET self == last'.self
        IN  /\ objects'[self].row_count =
                 IF last'.row_index >= objects[self].row_count
                 THEN last'.row_index + 1 ELSE objects[self].row_count
            /\ objects'[self].column_count =
                 IF last'.col_index >= objects[self].column_count
                 THEN last'.col_index + 1 ELSE objects[self].column_count

\* C1: every key of every matrix lies inside its dimensions, and a set_value
\* call grows a dimension to exactly index + 1 when the index is out of range
\* and leaves it alone when the index is in range.
C1_KeysInRangeAndGrowth == []KeysInRange /\ [][SetGrowsExactly]_vars

\* a set_value call at (1, 0) on a matrix whose only key it is: matrices are
\* constructed with no more than MaxIndex rows here, so row_count = 2 was
\* grown to by set_value, and the column index 0 lies inside column_count
C1_Witness ==
    /\ last.op = "set_value"
    /\ last.row_index = 1 /\ last.col_index = 0
    /\ Keys(DictOf(Heap, last.self)) = {<<1, 0>>}
    /\ objects[last.self].row_count = 2
    /\ objects[last.self].column_count = 1

\* C2: add on operands of equal dimensions returns a matrix of those
\* dimensions whose value at every coordinate is the sum of the operands'
\* values and whose keys are exactly the keys of either operand.
C2_AddIsSumOverUnion ==
    (last.op = "add" /\ SameDimensions(Heap, last.self, last.other)) =>
        /\ ~Raised(last.exc)
        /\ last.ret \in Alive
        /\ SameDimensions(Heap, last.ret, last.self)
        /\ \A r \in RowsOf(Heap, last.self), c \in ColumnsOf(Heap, last.self) :
             get_value(Heap, last.ret, r, c) =
                 get_value(Heap, last.self, r, c) + get_value(Heap, last.other, r, c)
        /\ Keys(DictOf(Heap, last.ret)) =
               Keys(DictOf(Heap, last.self)) \cup Keys(DictOf(Heap, last.other))

\* an add of two different matrices in which one shared coordinate sums to 0
\* and another coordinate is held by the second operand alone
C2_Witness ==
    /\ last.op = "add" /\ ~Raised(last.exc) /\ last.self # last.other
    /\ \E key \in Keys(DictOf(Heap, last.self)) \cap Keys(DictOf(Heap, last.other)) :
         /\ get_value(Heap, last.self, key[1], key[2]) # 0
         /\ get_value(Heap, last.ret, key[1], key[2]) = 0
         /\ key \in Keys(DictOf(Heap, last.ret))
    /\ Keys(DictOf(Heap, last.other)) \ Keys(DictOf(Heap, last.self)) # {}

\* C3: multiply on operands whose inner dimensions agree returns a matrix of
\* exactly A.row_count x B.column_count whose value at (r, j) is the sum over
\* k of A[r, k] * B[k, j], in whatever order the items of A are held.
C3_MultiplyIsProduct ==
    (last.op = "multiply"
        /\ objects[last.self].column_count = objects[last.other].row_count) =>
        /\ ~Raised(last.exc)
        /\ last.ret \in Alive
        /\ objects[last.ret].row_count = objects[last.self].row_count
        /\ objects[last.ret].column_count = objects[last.other].column_count
        /\ \A r \in RowsOf(Heap, last.self), j \in ColumnsOf(Heap, last.other) :
             get_value(Heap, last.ret, r, j) =
                 DotProduct(Heap, last.self, last.other, r, j,
                            objects[last.self].column_count)

\* a multiply in which one result coordinate is the sum of two non-zero
\* products and the items of A are not held in row-major order
C3_Witness ==
    /\ last.op = "multiply" /\ ~Raised(last.exc) /\ last.self # last.other
    /\ \E r \in RowsOf(Heap, last.self), j \in ColumnsOf(Heap, last.other) :
         /\ get_value(Heap, last.self, r, 0) * get_value(Heap, last.other, 0, j) # 0
         /\ get_value(Heap, last.self, r, 1) * get_value(Heap, last.other, 1, j) # 0
    /\ Len(DictOf(Heap, last.self)) = 2
    /\ DictOf(Heap, last.self)[1].key[2] > DictOf(Heap, last.self)[2].key[2]

MismatchIffDimensionsDiffer ==
    /\ last.op \in {"add", "subtract"} =>
         /\ Raised(last.exc) <=> ~SameDimensions(Heap, last.self, last.other)
         /\ Raised(last.exc) => DimensionMismatch(last.exc)
    /\ last.op = "multiply" =>
         /\ Raised(last.exc) <=>
              objects[last.self].column_count # objects[last.other].row_count
         /\ Raised(last.exc) => DimensionMismatch(last.exc)

NoPartialResult ==
    (last'.op \in Arithmetic /\ Raised(last'.exc)) =>
        /\ last'.ret = None
        /\ objects' = objects
        /\ dicts' = dicts

\* C4: add and subtract raise the dimension error exactly when the operands'
\* row counts or column counts differ, multiply exactly when A.column_count
\* differs from B.row_count; a call that raises returns nothing and has made
\* no matrix.
C4_DimensionMismatch == []MismatchIffDimensionsDiffer /\ [][NoPartialResult]_vars

\* a multiply that raised on two matrices of the same 1 x 2 shape, which add
\* and subtract accept
C4_Witness ==
    /\ last.op = "multiply" /\ Raised(last.exc)
    /\ last.self # last.other
    /\ SameDimensions(Heap, last.self, last.other)
    /\ DictOf(Heap, last.self) # <<>>

OperandsUnchanged ==
    last'.op \in Arithmetic =>
        /\ \A i \in 1..Len(objects) : objects'[i] = objects[i]
        /\ \A j \in 1..Len(dicts) : dicts'[j] = dicts[j]
        /\ ~Raised(last'.exc) =>
             /\ last'.ret \notin 1..Len(objects)
             /\ objects'[last'.ret].non_zero_elements \notin 1..Len(dicts)
             /\ \A i \in 1..Len(objects') :
                  i # last'.ret =>
                      objects'[i].non_zero_elements #
                          objects'[last'.ret].non_zero_elements

\* C5: add, subtract and multiply leave every matrix and every dict that
\* existed before the call as it was, whether they return or raise and also
\* when both operands are the same matrix; the matrix they return is a new
\* object whose dict is a new dict that no other matrix holds.
C5_OperandsUnchanged == [][OperandsUnchanged]_vars

\* an add of a matrix of two items to itself
C5_Witness ==
    /\ last.op = "add" /\ ~Raised(last.exc)
    /\ last.self = last.other
    /\ Len(DictOf(Heap, last.self)) = 2
    /\ Len(DictOf(Heap, last.ret)) = 2

\* C6: subtracting B from the matrix add(A, B) returned succeeds and gives a
\* matrix of A's dimensions with A's value at every coordinate.
C6_SubtractUndoesAdd ==
    (last.op = "add" /\ ~Raised(last.exc)) =>
        LET back == subtract(Heap, last.ret, last.other)
        IN  /\ ~Raised(back.exc)
            /\ SameDimensions(back.heap, back.ret, last.self)
            /\ \A r \in RowsOf(Heap, last.self), c \in ColumnsOf(Heap, last.self) :
                 get_value(back.heap, back.ret, r, c) =
                     get_value(Heap, last.self, r, c)

\* an add of two different matrices that share a coordinate, the second
\* holding a non-zero value at a coordinate the first does not hold
C6_Witness ==
    /\ last.op = "add" /\ ~Raised(last.exc) /\ last.self # last.other
    /\ Keys(DictOf(Heap, last.self)) \cap Keys(DictOf(Heap, last.other)) # {}
    /\ \E key \in Keys(DictOf(Heap, last.other)) \ Keys(DictOf(Heap, last.self)) :
         get_value(Heap, last.other, key[1], key[2]) # 0

\* the indices get_value is asked for: in range, out of range and negative
Probes == (-1)..(MaxIndex + 2)

\* C9 as stated: get_value returns 0 only for a coordinate that is no key,
\* every value held being non-zero.
C9_AsStated ==
    \A self \in Alive : \A r \in Probes, c \in Probes :
        get_value(Heap, self, r, c) = 0 <=> <<r, c>> \notin Keys(DictOf(Heap, self))

\* C9 amended: get_value returns the value held at a coordinate that is a
\* key, which is an integer and may be 0, and 0 at a coordinate that is no
\* key; a dict holds one item per key; get_value is defined for every pair
\* of indices.
C9_GetReturnsHeldValueOrZero ==
    \A self \in Alive : \A r \in Probes, c \in Probes :
        LET d == DictOf(Heap, self)
            at == {i \in 1..Len(d) : d[i].key = <<r, c>>}
        IN  /\ Cardinality(at) <= 1
            /\ get_value(Heap, self, r, c) \in Int
            /\ \A i \in at : get_value(Heap, self, r, c) = d[i].value
            /\ at = {} => get_value(Heap, self, r, c) = 0

\* an add whose result holds an explicit 0 where two non-zero values
\* cancelled, beside a coordinate that is no key
C9_Witness ==
    /\ last.op = "add" /\ ~Raised(last.exc)
    /\ \E key \in Keys(DictOf(Heap, last.ret)) :
         /\ get_value(Heap, last.ret, key[1], key[2]) = 0
         /\ get_value(Heap, last.self, key[1], key[2]) # 0
    /\ \E r \in RowsOf(Heap, last.ret), c \in ColumnsOf(Heap, last.ret) :
         <<r, c>> \notin Keys(DictOf(Heap, last.ret))

\* C7: loading the text a matrix was saved as succeeds and gives a matrix of
\* the same dimensions, with the same value at every coordinate and the same
\* keys, an explicit 0 included.
C7_RoundTrip ==
    last.op = "load_from_file" =>
        \A self \in Alive :
            (last.path \in DOMAIN files /\ files[last.path] = __str__(Heap, self)) =>
                /\ ~Raised(last.exc)
                /\ last.ret \in Alive
                /\ SameDimensions(Heap, last.ret, self)
                /\ \A r \in RowsOf(Heap, self), c \in ColumnsOf(Heap, self) :
                     get_value(Heap, last.ret, r, c) = get_value(Heap, self, r, c)
                /\ Keys(DictOf(Heap, last.ret)) = Keys(DictOf(Heap, self))

\* the load of the text of a matrix that holds an explicit 0 and a negative
\* value of two digits at an index of two digits
C7_Witness ==
    /\ last.op = "load_from_file" /\ ~Raised(last.exc)
    /\ last.ret # 1
    /\ files[last.path] = __str__(Heap, 1)
    /\ objects[1].row_count > 10
    /\ \E i, j \in 1..Len(DictOf(Heap, 1)) :
         /\ DictOf(Heap, 1)[i].value = 0
         /\ DictOf(Heap, 1)[j].value < -9
         /\ DictOf(Heap, 1)[j].key[1] > 9
    /\ DictOf(Heap, last.ret) = DictOf(Heap, 1)

\* a line that is one dimension line and nothing more, once stripped
ExactDimension(name, line) ==
    LET m == re_match_dimension(name, strip(line))
    IN  m.matched /\ m.end = Len(strip(line))

\* a line that is one triple and nothing more, once stripped
ExactTriple(line) ==
    LET m == re_match_triple(strip(line))
    IN  m.matched /\ m.end = Len(strip(line))

\* the numbers of the lines after line 2 that are neither blank nor one triple
BadEntryLines(lines) ==
    {i \in 3..Len(lines) : strip(lines[i]) # <<>> /\ ~ExactTriple(lines[i])}

Least(S) == CHOOSE n \in S : \A m \in S : n <= m

\* C8: a text whose line 1 or line 2 is not exactly a dimension line, or
\* one of whose later lines is neither blank nor exactly one triple, is
\* rejected with a format error and no matrix; with good dimension lines the
\* error names the first such line.
C8_RejectsEveryMalformedText ==
    (last.op = "load_from_file" /\ last.path \in DOMAIN files
        /\ files[last.path] # NoFile) =>
        LET lines == readlines(files[last.path])
            headers == /\ ExactDimension(Rows, lines[1])
                       /\ ExactDimension(Cols, lines[2])
        IN  Len(lines) >= 2 =>
              /\ (~headers \/ BadEntryLines(lines) # {}) =>
                    /\ last.exc.type = "ValueError"
                    /\ last.ret = None
              /\ (headers /\ BadEntryLines(lines) # {}) =>
                    last.exc.line = Least(BadEntryLines(lines))

\* the numbers of the printed lines that report an error
ErrorLines == {i \in 1..Len(stdout) : stdout[i].text = "Error:"}

StepOrder ==
    {<<"menu", "load_first">>, <<"load_first", "load_second">>,
     <<"load_second", "choose">>, <<"choose", "apply">>,
     <<"apply", "output_path">>, <<"output_path", "save">>, <<"save", "done">>}

OutputOnlyAfterSuccess ==
    /\ written # {} =>
         /\ pc = "done" /\ ErrorLines = {}
         /\ frame.matrix1 \in Alive /\ frame.matrix2 \in Alive
         /\ frame.operation \in {"1", "2", "3"}
         /\ frame.result_matrix \in Alive
         /\ written = {frame.output_file_path}
    /\ Cardinality(ErrorLines) <= 1
    /\ ErrorLines # {} => (pc = "done" /\ written = {} /\ ErrorLines = {Len(stdout)})
    /\ pc = "done" => (ErrorLines # {} \/ written # {})

FailureEndsTheRun ==
    /\ pc' # pc =>
         \/ <<pc, pc'>> \in StepOrder
         \/ pc' = "done" /\ ErrorLines' # {}
    /\ pc = "done" => UNCHANGED vars
    /\ written' # written => pc = "save"
    /\ (pc' = "done" /\ ErrorLines' # {}) =>
         /\ files' = files /\ written' = written
         /\ objects' = objects /\ frame' = frame

\* C10: the output file is written only at the end of a run in which both
\* loads succeeded, the choice was 1, 2 or 3 and the operation returned a
\* matrix; the steps come in their order; a step that fails prints one
\* "Error:" line as the last line, nothing is written and the run is over.
C10_OutputOnlyAfterSuccess == []OutputOnlyAfterSuccess /\ [][FailureEndsTheRun]_vars

\* a run that loaded both matrices and ended on the dimension error of the
\* operation chosen, with nothing written
C10_Witness ==
    /\ pc = "done" /\ written = {}
    /\ frame.matrix1 \in Alive /\ frame.matrix2 \in Alive
    /\ frame.operation = "1"
    /\ ErrorLines = {Len(stdout)}
    /\ DimensionMismatch(stdout[Len(stdout)].arg)

=============================================================================
